---- MODULE Spec2Model ----
(***************************************************************************)
(* CustomPrior of A_NICER_VIEW_OF_PSR_J0740+6620/STU/                      *)
(* CustomPrior_GLS_compressed_scaling.py: the support test (__call__),     *)
(* density, inverse_sample and transform, over the parameter container and *)
(* the spacetime the prior reads.                                          *)
(*                                                                         *)
(* Reals are carried in fixed point, one unit per quantity:                *)
(*   mass                          1e-7 solar masses                       *)
(*   cos_inclination               1e-9                                    *)
(*   XTI__alpha, PN__alpha         1e-6                                    *)
(*   every other parameter         1e-3 (km, kpc, cycles, radians, ...)    *)
(*   hypercube coordinates         eighths (0 .. 8 stands for 0.0 .. 1.0)  *)
(*   standard-normal quantiles     1e-3 standard deviations                *)
(*   epsilon, zeta, R_r_s          1e-2                                    *)
(*   effective gravity (log10)     1e-1                                    *)
(***************************************************************************)
EXTENDS Integers, Sequences, FiniteSets

\* ------------------------------------------------------------ bounds

\* how many points of the quantile grid a hypercube coordinate is drawn from
NumDraws == 3

\* how many equally spaced phase shifts in [0, 1) transform is applied to
PhaseSteps == 4

\* ------------------------------------------------- module-level constants

_corr == 800

_mu_m == 20820000

_std_m == 703000

_mu_cosi == 42700000

_std_cosi == 3040000

_rho == 916

_std == 104000

RECURSIVE SqrtBetween(_, _, _)
\* the r with lo <= r < hi and r*r <= n < (r+1)*(r+1), by bisection
SqrtBetween(n, lo, hi) ==
    IF hi - lo <= 1 THEN lo
    ELSE LET mid == (lo + hi) \div 2
         IN  IF mid * mid <= n THEN SqrtBetween(n, mid, hi)
             ELSE SqrtBetween(n, lo, mid)

\* floor of the square root of n, 0 <= n < 2^20
ISqrt(n) == SqrtBetween(n, 0, 1024)

\* floor(x * n / d) for d > 0, without forming the product x * n
MulDiv(x, n, d) == (x \div d) * n + ((x % d) * n) \div d

Min(a, b) == IF a <= b THEN a ELSE b

Max(a, b) == IF a >= b THEN a ELSE b

\* np.sqrt((1.0 - _corr*_corr) * _std_cosi * _std_cosi), in 1e-9
_cond_std == (ISqrt(1000000 - _corr * _corr) * (_std_cosi \div 1000))

\* np.sqrt((1.0 - 0.916 * 0.916) * 0.104 * 0.104), in 1e-6
_cond_std_alpha == (ISqrt(1000000 - _rho * _rho) * (_std \div 1000))

\* ------------------------------------------------- the parameter container

\* the free parameters in vector order; the two instrument scale factors are
\* optional
AllNames ==
    << "mass", "radius", "distance", "cos_inclination",
       "p__phase_shift", "p__super_colatitude", "p__super_radius",
       "p__super_temperature",
       "s__phase_shift", "s__super_colatitude", "s__super_radius",
       "s__super_temperature",
       "XTI__alpha", "column_density", "PN__alpha" >>

Optional == {"XTI__alpha", "PN__alpha"}

IsPresent(n, ps) == n \notin Optional \/ n \in ps

\* the schema of a container holding the optional scale factors opt: its
\* names in vector order, and the position of each name (1-based here)
ParameterSubspace(opt) ==
    LET names == SelectSeq(AllNames, LAMBDA n : IsPresent(n, opt))
    IN  [names |-> names,
         index |-> [n \in {names[i] : i \in 1..Len(names)} |->
                       CHOOSE i \in 1..Len(names) : names[i] = n]]

\* self.parameters.names
Names(ps) == ps.names

NameSet(ps) == DOMAIN ps.index

\* ref.index(name)
Index(name, ps) == ps.index[name]

\* self.parameters.vector: the values in vector order (ps is the schema)
Vector(ref, ps) == [i \in 1..Len(Names(ps)) |-> ref[Names(ps)[i]]]

\* ref[name] raises KeyError when the container has no such parameter
HasParam(ref, name) == name \in DOMAIN ref

\* the (soft) bounds of each parameter, as the container was built with
Bounds(n) ==
    CASE n = "mass"                 -> << 10000000, 30000000 >>
      [] n = "radius"               -> << 4430, 16000 >>
      [] n = "distance"             -> << 0, 1700 >>
      [] n = "cos_inclination"      -> << 0, 1000000000 >>
      [] n = "p__phase_shift"       -> << 0, 1000 >>
      [] n = "s__phase_shift"       -> << 0, 1000 >>
      [] n = "p__super_colatitude"  -> << 0, 3142 >>
      [] n = "s__super_colatitude"  -> << 0, 3142 >>
      [] n = "p__super_radius"      -> << 0, 1570 >>
      [] n = "s__super_radius"      -> << 0, 1570 >>
      [] n = "p__super_temperature" -> << 5100, 6800 >>
      [] n = "s__super_temperature" -> << 5100, 6800 >>
      [] n = "column_density"       -> << 0, 10000 >>
      [] OTHER                      -> << 100000, 1900000 >>

VARIABLES
    parameters,   \* the schema of the container: names and their positions
    strict_lower, \* strict_bounds[0] of cos_inclination
    value,        \* parameter name -> current value
    cached,       \* parameter name -> cached value
    op,           \* the method that returned last
    env,          \* what the collaborators supplied to the last support test
    evalRet,      \* what the last __call__ returned (or the exception raised)
    densRet,      \* what the last density returned (or the exception raised)
    hypercube,    \* the argument of the last inverse_sample
    sampleOut,    \* the vector the last inverse_sample returned
    to_cache,     \* the snapshot the last inverse_sample took on entry
    transIn,      \* the argument of the last transform
    transOut      \* the list the last transform returned

vars == << parameters, strict_lower, value, cached, op, env, evalRet, densRet,
           hypercube, sampleOut, to_cache, transIn, transOut >>

\* ------------------------------------------------------- __call__ (support)

\* -0.788 + 1.030 * ref.zeta, in 1e-4
ZetaTerm(st) == -7880 + 103 * st.zeta

\* R_p = 1.0 + ref.epsilon * (-0.788 + 1.030 * ref.zeta), in 1e-6
R_p(st) == 1000000 + st.epsilon * ZetaTerm(st)

\* R_p < 1.505 / ref.R_r_s; R_r_s > 0, so both sides are multiplied by it
InsidePhotonSphere(st) == R_p(st) * st.R_r_s < 150500000

\* 3.0 * ref.epsilon * (-0.788 + 1.030 * ref.zeta), in 1e-6
MuDenominator(st) == 3 * st.epsilon * ZetaTerm(st)

\* what math.sqrt(-1.0 / MuDenominator) does: the division raises on a zero
\* denominator, the square root raises on a negative argument
MuRaises(st) ==
    CASE MuDenominator(st) = 0 -> "ZeroDivisionError"
      [] MuDenominator(st) > 0 -> "ValueError"
      [] OTHER                 -> "no"

\* mu < 1.0, for a negative denominator: mu * mu = 1e6 / (-MuDenominator),
\* and the square root is increasing with sqrt(1) = 1
MuBelowOne(st) == 1000000 < -MuDenominator(st)

\* not 13.7 <= g <= 15.0
GravityOutside(g) == ~(137 <= g /\ g <= 150)

\* The body of __call__ once temp = super().__call__(p) is known.  e holds
\* what the collaborators return: base (the base-class check), st (the
\* spacetime), grav (effective_gravity at pole and equator), ang_sep
\* (HotRegion.psi of the two colatitudes and phi).
Call(ref, e) ==
    IF e.base # "0.0" THEN e.base
    ELSE IF ~(0 < ref["distance"] /\ ref["distance"] <= 1700) THEN "-inf"
    ELSE IF ~(ref["radius"] <= 16000) THEN "-inf"
    ELSE IF InsidePhotonSphere(e.st) THEN "-inf"
    ELSE IF MuRaises(e.st) # "no" THEN MuRaises(e.st)
    ELSE IF MuBelowOne(e.st) THEN "-inf"
    ELSE IF \E i \in 1..2 : GravityOutside(e.grav[i]) THEN "-inf"
    ELSE IF ref["p__super_colatitude"] > ref["s__super_colatitude"] THEN "-inf"
    ELSE IF e.ang_sep < ref["p__super_radius"] + ref["s__super_radius"] THEN "-inf"
    ELSE "0.0"

\* np.isfinite of a value __call__ returned
IsFinite(r) == r = "0.0"

Raised(r) == r \in {"ZeroDivisionError", "ValueError", "KeyError"}

\* ------------------------------------------------- scipy.stats distributions

\* a normal density, up to a positive factor, at |z| (1e-3 standard
\* deviations): positive everywhere and decreasing in |z|
NormalWeight(zabs) ==
    IF zabs < 1000 THEN 4 ELSE IF zabs < 2000 THEN 2 ELSE 1

Abs(x) == IF x < 0 THEN -x ELSE x

\* skewnorm.pdf(x, 1.7, loc=1.002, scale=0.227), up to a positive factor:
\* positive on the whole line
SkewNormPDF(x) == NormalWeight(MulDiv(Abs(x - 1147), 1000, 227))

\* truncnorm.pdf(x, a, b, loc, scale), up to a positive factor.  The
\* standardised limits a and b are carried multiplied by scale (aS = a*scale,
\* bS = b*scale), so the support is [loc + aS, loc + bS]; outside it the
\* density is 0.
TruncNormPDF(x, aS, bS, loc, scale) ==
    IF x < loc + aS \/ x > loc + bS THEN 0
    ELSE NormalWeight(MulDiv(Abs(x - loc), 1000, scale))

\* the points a hypercube coordinate is drawn from, in eighths
QuantileGrid == << 0, 8, 4, 2, 6, 1, 7 >>

UGrid == {QuantileGrid[i] : i \in 1..Min(NumDraws, Len(QuantileGrid))}

\* the standard-normal quantile of u/8, 0 < u < 8, in 1e-3 (to the nearest 5)
StdQuantile(u) ==
    CASE u = 1 -> -1150
      [] u = 2 -> -675
      [] u = 4 -> 0
      [] u = 6 -> 675
      [] u = 7 -> 1150

\* truncnorm.ppf(u, a, b, loc, scale) with aS = a*scale, bS = b*scale: the
\* two ends of the support at u = 0 and u = 1, and in between the normal
\* quantile, which lies inside the support
TruncNormPPF(u, aS, bS, loc, scale) ==
    loc + (CASE u = 0 -> aS
             [] u = 8 -> bS
             [] OTHER -> Max(aS, Min(bS, MulDiv(StdQuantile(u), scale, 1000))))

\* the value standing for an infinite float
Infinity == 2 * 1000000000

\* the quantile of u/8 of the standard skew-normal with skewness 1.7, in 1e-3
SkewQuantile(u) ==
    CASE u = 1 -> -121
      [] u = 2 -> 181
      [] u = 4 -> 640
      [] u = 6 -> 1146
      [] u = 7 -> 1533

\* skewnorm.ppf(u, 1.7, loc=1.002, scale=0.227): unbounded at u = 0 and u = 1
SkewNormPPF(u) ==
    CASE u = 0 -> -Infinity
      [] u = 8 -> Infinity
      [] OTHER -> 1002 + MulDiv(SkewQuantile(u), 227, 1000)

\* math.acos at the multiples of 0.25 from -1 to 1, in 1e-3 radians
AcosTable == << 3142, 2419, 2094, 1823, 1571, 1318, 1047, 723, 0 >>

\* math.acos(x), x in 1e-3, to the grid of AcosTable
Acos(x) == AcosTable[((x + 1000) \div 250) + 1]

\* math.cos(t), t in 1e-3 radians within [0, pi], to the same grid
Cos(t) == -1000 + 250 * Cardinality({k \in 1..Len(AcosTable) : AcosTable[k] > t})

\* ---------------------------------------------------------------- density

\* _loc = _mu_cosi + (_std_cosi / _std_m) * _corr * (ref['mass'] - _mu_m)
_loc(ref) ==
    _mu_cosi + MulDiv(ref["mass"] - _mu_m,
                      ((_std_cosi \div 1000) * _corr) \div 1000,
                      _std_m \div 1000)

\* _lower = min(-10.0, (_strict[0] - _loc)/_cond_std), carried multiplied by
\* _cond_std as TruncNormPDF and TruncNormPPF take it
_lower(ref, strict) == Min(-10 * _cond_std, strict - _loc(ref))

\* (x - 1.0)/_std, in 1e-2
AlphaScore(x) == MulDiv(x - 1000000, 100, _std)

\* _exponent of the bivariate normal of the two scale factors, in units of 1
_exponent(ref) ==
    LET a == AlphaScore(ref["XTI__alpha"])
        b == AlphaScore(ref["PN__alpha"])
        num == 1000 * (a * a + b * b) - 2 * _rho * a * b
    IN  num \div (20 * (1000000 - _rho * _rho))

\* math.exp(-1.0 * _exponent) / (2 pi _std^2 sqrt(1 - _rho^2)), up to a
\* positive factor
BivariateWeight(ref) == NormalWeight(1000 * ISqrt(2 * Max(0, _exponent(ref))))

\* density(point): [raised, value]; e is what the collaborators supply to the
\* support test self(point)
Density(ref, e, strict) ==
    LET r == Call(ref, e)
        d1 == SkewNormPDF(ref["distance"])
        d2 == d1 * TruncNormPDF(ref["mass"], -5 * _std_m, 5 * _std_m, _mu_m, _std_m)
        d3 == d2 * TruncNormPDF(ref["cos_inclination"], _lower(ref, strict),
                                10 * _cond_std, _loc(ref), _cond_std)
    IN  IF Raised(r) THEN [raised |-> r, value |-> 0]
        ELSE IF ~IsFinite(r) THEN [raised |-> "no", value |-> 0]
        ELSE IF ~HasParam(ref, "PN__alpha") THEN [raised |-> "no", value |-> d3]
        ELSE IF ~HasParam(ref, "XTI__alpha") THEN [raised |-> "KeyError", value |-> 0]
        ELSE [raised |-> "no", value |-> d3 * BivariateWeight(ref)]

\* ----------------------------------------------------------- inverse_sample

\* super().inverse_sample(hypercube): every free parameter is set from its
\* hypercube coordinate, uniformly between its bounds
BaseInverseSample(ref, u, ps) ==
    [n \in DOMAIN ref |->
        Bounds(n)[1] + MulDiv(Bounds(n)[2] - Bounds(n)[1], u[Index(n, ps)], 8)]

\* ref['distance'] = skewnorm.ppf(hypercube[idx], 1.7, loc=1.002, scale=0.227)
WriteDistance(ref, u, ps) ==
    [ref EXCEPT !["distance"] = SkewNormPPF(u[Index("distance", ps)])]

\* ref['mass'] = truncnorm.ppf(hypercube[idx], -5.0, 5.0, loc=_mu_m, scale=_std_m)
WriteMass(ref, u, ps) ==
    [ref EXCEPT !["mass"] =
        TruncNormPPF(u[Index("mass", ps)], -5 * _std_m, 5 * _std_m, _mu_m, _std_m)]

\* ref['cos_inclination'] = truncnorm.ppf(hypercube[idx], _lower, 10.0,
\*                                        loc=_loc, scale=_cond_std)
WriteCosInclination(ref, u, ps, strict) ==
    [ref EXCEPT !["cos_inclination"] =
        TruncNormPPF(u[Index("cos_inclination", ps)], _lower(ref, strict),
                     10 * _cond_std, _loc(ref), _cond_std)]

\* a, b = bounds; a = cos(a); b = cos(b); ref[name] = acos(b + (a - b) * u)
WriteColatitude(ref, u, ps, name) ==
    LET a == Cos(Bounds(name)[1])
        b == Cos(Bounds(name)[2])
    IN  [ref EXCEPT ![name] = Acos(b + MulDiv(a - b, u[Index(name, ps)], 8))]

\* the XTI__alpha block: skipped when the container has no such parameter
WriteXTI(ref, u, ps) ==
    IF ~HasParam(ref, "XTI__alpha") THEN ref
    ELSE [ref EXCEPT !["XTI__alpha"] =
            TruncNormPPF(u[Index("XTI__alpha", ps)], -5 * _std, 5 * _std,
                         1000000, _std)]

\* _loc of PN__alpha: 1.0 + 0.916 * (ref['XTI__alpha'] - 1.0), or 1.0 when
\* XTI__alpha is absent
_loc_alpha(ref) ==
    IF ~HasParam(ref, "XTI__alpha") THEN 1000000
    ELSE 1000000 + MulDiv(ref["XTI__alpha"] - 1000000, _rho, 1000)

\* _scale of PN__alpha: _cond_std_alpha, or 0.104 when XTI__alpha is absent
_scale_alpha(ref) ==
    IF ~HasParam(ref, "XTI__alpha") THEN _std ELSE _cond_std_alpha

\* the PN__alpha block: skipped when the container has no such parameter
WritePN(ref, u, ps) ==
    IF ~HasParam(ref, "PN__alpha") THEN ref
    ELSE [ref EXCEPT !["PN__alpha"] =
            TruncNormPPF(u[Index("PN__alpha", ps)], -5 * _scale_alpha(ref),
                         5 * _scale_alpha(ref), _loc_alpha(ref), _scale_alpha(ref))]

\* SampleWrites without the call of the base routine: the parameters the
\* prior does not write itself keep the values they had on entry
SampleWrites_NoBase(ref, u, ps, strict) ==
    LET r2 == WriteDistance(ref, u, ps)
        r3 == WriteMass(r2, u, ps)
        r4 == WriteCosInclination(r3, u, ps, strict)
        r5 == WriteColatitude(r4, u, ps, "p__super_colatitude")
        r6 == WriteColatitude(r5, u, ps, "s__super_colatitude")
        r7 == WriteXTI(r6, u, ps)
    IN  WritePN(r7, u, ps)

\* SampleWrites with cos_inclination written before the mass: its conditional
\* location comes from the mass the base routine filled in
SampleWrites_CosBeforeMass(ref, u, ps, strict) ==
    LET r1 == BaseInverseSample(ref, u, ps)
        r2 == WriteDistance(r1, u, ps)
        r3 == WriteCosInclination(r2, u, ps, strict)
        r4 == WriteMass(r3, u, ps)
        r5 == WriteColatitude(r4, u, ps, "p__super_colatitude")
        r6 == WriteColatitude(r5, u, ps, "s__super_colatitude")
        r7 == WriteXTI(r6, u, ps)
    IN  WritePN(r7, u, ps)

\* the writes of inverse_sample, from the base routine to PN__alpha, applied
\* to the container values ref in the order of the code
SampleWrites(ref, u, ps, strict) ==
    LET r1 == BaseInverseSample(ref, u, ps)
        r2 == WriteDistance(r1, u, ps)
        r3 == WriteMass(r2, u, ps)
        r4 == WriteCosInclination(r3, u, ps, strict)
        r5 == WriteColatitude(r4, u, ps, "p__super_colatitude")
        r6 == WriteColatitude(r5, u, ps, "s__super_colatitude")
        r7 == WriteXTI(r6, u, ps)
    IN  WritePN(r7, u, ps)

\* RestoreCache that restores the values as well, undoing the sampling
RestoreCache_UndoValues(val, cach, snapshot, ps) ==
    [value  |-> [n \in DOMAIN val |-> snapshot[Index(n, ps)]],
     cached |-> [n \in DOMAIN cach |-> snapshot[Index(n, ps)]]]

\* RestoreCache left out: the cached values stay as they were on entry
RestoreCache_Skip(val, cach, snapshot, ps) == [value |-> val, cached |-> cach]

\* for parameter, cache in zip(self.parameters, to_cache):
\*     parameter.cached = cache
RestoreCache(val, cach, snapshot, ps) ==
    [value  |-> val,
     cached |-> [n \in DOMAIN cach |-> snapshot[Index(n, ps)]]]

\* inverse_sample(hypercube) on a container holding (val, cach): the container
\* it leaves, the snapshot it took, and the vector it returns
InverseSample(val, cach, u, ps, strict) ==
    LET snapshot == Vector(val, ps)
        written  == SampleWrites(val, u, ps, strict)
        after    == RestoreCache(written, cach, snapshot, ps)
    IN  [value    |-> after.value,
         cached   |-> after.cached,
         to_cache |-> snapshot,
         out      |-> Vector(after.value, ps)]

\* ---------------------------------------------------------------- transform

\* gravradius(M), M in 1e-7 solar masses, in 1e-4 km (1.4766 km per solar mass)
gravradius(M) == MulDiv(M \div 1000, 14766, 10000)

\* Shifted with the comparison made inclusive: one half is folded too
Shifted_AtHalf(x) == IF x >= 500 THEN x - 1000 ELSE x

\* the value appended for a phase shift
Shifted(x) == IF x > 500 THEN x - 1000 ELSE x

\* transform(p): the copy of p followed by the compactness (1e-3) and the two
\* shifted phase shifts
Transform(p, ps) ==
    LET ref == [n \in NameSet(ps) |-> p[Index(n, ps)]]
    IN  p \o << MulDiv(gravradius(ref["mass"]), 100, ref["radius"]) >>
          \o << Shifted(ref["p__phase_shift"]) >>
          \o << Shifted(ref["s__phase_shift"]) >>

\* ------------------------------------------------- the inputs of the calls

\* strict_bounds[0] of cos_inclination: -1.0, and a bound 0.04 that lies
\* within ten conditional standard deviations of the conditional location
StrictLowerChoices == {-1000000000, 40000000}

\* the container as built: every parameter mid-way between its bounds, every
\* cached value at the lower bound
InitialValue(ps) ==
    [n \in NameSet(ps) |-> Bounds(n)[1] + (Bounds(n)[2] - Bounds(n)[1]) \div 2]

InitialCached(ps) == [n \in NameSet(ps) |-> Bounds(n)[1]]

\* a point with mass and cos_inclination at their means and unit scale factors
MeanPoint(ps) ==
    [n \in NameSet(ps) |->
        CASE n = "mass"            -> _mu_m
          [] n = "cos_inclination" -> _mu_cosi
          [] n \in Optional        -> 1000000
          [] n \in {"p__super_radius", "s__super_radius"} -> 500
          [] OTHER                 -> InitialValue(ps)[n]]

\* the points the sampler hands to the support test and the density: on and
\* around each bound of the parameter checks
SupportPoints(ps) ==
    {[MeanPoint(ps) EXCEPT !["distance"] = d, !["radius"] = r,
                             !["p__super_colatitude"] = c[1],
                             !["s__super_colatitude"] = c[2]] :
        d \in {0, 1000, 1700, 1701}, r \in {16000, 16001},
        c \in {<< 1500, 1500 >>, << 2000, 1000 >>}}

\* the points the sampler sets between two inverse_sample calls
SamplePoints(ps) == {MeanPoint(ps)}

\* what the spacetime supplies: a non-rotating star (epsilon = 0), a slow and
\* a fast rotator, each at two compactnesses (zeta = 1 / (2 R_r_s))
Spacetimes ==
    {[epsilon |-> e, zeta |-> z[1], R_r_s |-> z[2]] :
        e \in {0, 10, 60}, z \in {<< 20, 250 >>, << 50, 100 >>}}

\* what the collaborators supply to one support test
\* an admissible answer of every collaborator: a slow rotator, both gravities
\* on the two ends of [13.7, 15.0], a separation equal to the sum of the radii
\* of MeanPoint
GoodEnv ==
    [base |-> "0.0", st |-> [epsilon |-> 10, zeta |-> 20, R_r_s |-> 250],
     grav |-> << 150, 137 >>, ang_sep |-> 1000]

\* what the collaborators supply to one support test: GoodEnv, and GoodEnv
\* with one or two of the answers changed
Envs ==
    {[GoodEnv EXCEPT !.st = s, !.ang_sep = a] : s \in Spacetimes, a \in {999, 1000}}
    \cup {[GoodEnv EXCEPT !.grav = g, !.ang_sep = a] :
            g \in {<< 151, 143 >>, << 143, 136 >>, << 143, 142 >>}, a \in {999, 1000}}
    \cup {[GoodEnv EXCEPT !.base = "-inf"]}

\* the one of them used between inverse_sample calls
FewEnvs == {GoodEnv}

NoEnv ==
    [base |-> "none", st |-> [epsilon |-> 0, zeta |-> 0, R_r_s |-> 0],
     grav |-> << 0, 0 >>, ang_sep |-> 0]

\* the hypercubes: one draw a for mass, XTI__alpha, distance and the
\* parameters of the primary region, another b for the rest
Cube(a, b, ps) ==
    [i \in 1..Len(Names(ps)) |->
        IF Names(ps)[i] \in {"mass", "XTI__alpha", "distance", "radius",
                               "p__phase_shift", "p__super_colatitude",
                               "p__super_radius", "p__super_temperature"}
        THEN a ELSE b]

Hypercubes(ps) == {Cube(a, b, ps) : a \in UGrid, b \in UGrid}

\* the phase shifts transform is applied to, in [0, 1)
PhaseGrid == {(k * 1000) \div PhaseSteps : k \in 0..(PhaseSteps - 1)} \cup {300, 500, 700}

\* the raw vectors handed to transform
TransformInputs(ps) ==
    {Vector([MeanPoint(ps) EXCEPT !["p__phase_shift"] = x,
                                    !["s__phase_shift"] = y,
                                    !["radius"] = r], ps) :
        x \in PhaseGrid, y \in PhaseGrid, r \in {10000, 12000, 16000}}

\* ------------------------------------------------------------- the machine

Init ==
    /\ parameters \in {ParameterSubspace(opt) : opt \in SUBSET Optional}
    /\ strict_lower \in StrictLowerChoices
    /\ strict_lower = -1000000000 \/ Cardinality(NameSet(parameters)) = Len(AllNames)
    /\ value = InitialValue(parameters)
    /\ cached = InitialCached(parameters)
    /\ op = "init"
    /\ env = NoEnv
    /\ evalRet = "none"
    /\ densRet = [raised |-> "none", value |-> 0]
    /\ hypercube = << >>
    /\ sampleOut = << >>
    /\ to_cache = << >>
    /\ transIn = << >>
    /\ transOut = << >>

\* the sampler writes a candidate vector into the container
SetPoint(points) ==
    /\ \E p \in points : value' = p
    /\ op' = "set"
    /\ UNCHANGED << parameters, strict_lower, cached, env, evalRet, densRet,
                    hypercube, sampleOut, to_cache,
                    transIn, transOut >>

\* self(p)
EvaluateCall(envs) ==
    /\ \E e \in envs : \E r \in {Call(value, e)} : env' = e /\ evalRet' = r
    /\ op' = "evaluate"
    /\ UNCHANGED << parameters, strict_lower, value, cached, densRet,
                    hypercube, sampleOut, to_cache,
                    transIn, transOut >>

\* self.density(point)
DensityCall(envs) ==
    /\ \E e \in envs : \E r \in {Call(value, e)} :
          \E d \in {Density(value, e, strict_lower)} :
             /\ env' = e
             /\ evalRet' = r
             /\ densRet' = d
    /\ op' = "density"
    /\ UNCHANGED << parameters, strict_lower, value, cached,
                    hypercube, sampleOut, to_cache,
                    transIn, transOut >>

\* self.inverse_sample(hypercube)
InverseSampleCall ==
    /\ \E u \in Hypercubes(parameters) :
          \E r \in {InverseSample(value, cached, u, parameters, strict_lower)} :
              /\ value' = r.value
              /\ cached' = r.cached
              /\ to_cache' = r.to_cache
              /\ sampleOut' = r.out
              /\ hypercube' = u
    /\ op' = "inverse_sample"
    /\ UNCHANGED << parameters, strict_lower, env, evalRet, densRet,
                    transIn, transOut >>

\* self.transform(p)
TransformCall ==
    /\ \E p \in TransformInputs(parameters) :
          \E r \in {Transform(p, parameters)} : transIn' = p /\ transOut' = r
    /\ op' = "transform"
    /\ UNCHANGED << parameters, strict_lower, value, cached, env, evalRet,
                    densRet, hypercube, sampleOut, to_cache >>

\* the support test and the density on the sampler's candidate points
SupportNext ==
    \/ SetPoint(SupportPoints(parameters))
    \/ EvaluateCall(Envs)
    \/ DensityCall(Envs)

SpecSupport == Init /\ [][SupportNext]_vars

\* inverse sampling, with the sampler's writes and density (which runs the
\* support test) in between
SampleNext ==
    \/ InverseSampleCall
    \/ SetPoint(SamplePoints(parameters))
    \/ DensityCall(FewEnvs)

SpecSample == Init /\ [][SampleNext]_vars

\* the post-processing of sampled vectors
TransformNext == TransformCall

SpecTransform == Init /\ [][TransformNext]_vars

Next == SupportNext \/ SampleNext \/ TransformNext

Spec == Init /\ [][Next]_vars

\* ------------------------------------------------------------------ claims

\* the seven support constraints of a container ref under the collaborators'
\* answers e, as listed: mu is the square root of -1/MuDenominator, so
\* mu >= 1 says that it exists and that its square is at least 1
AllConstraintsHold(ref, e) ==
    /\ 0 < ref["distance"] /\ ref["distance"] <= 1700
    /\ ref["radius"] <= 16000
    /\ R_p(e.st) * e.st.R_r_s >= 150500000
    /\ MuDenominator(e.st) < 0 /\ 1000000 >= -MuDenominator(e.st)
    /\ \A i \in 1..2 : 137 <= e.grav[i] /\ e.grav[i] <= 150
    /\ ref["p__super_colatitude"] <= ref["s__super_colatitude"]
    /\ e.ang_sep >= ref["p__super_radius"] + ref["s__super_radius"]

\* C1: __call__ returns the base-class value unchanged when that value is not
\* finite; otherwise it returns 0.0 exactly when all seven support constraints
\* hold (every inclusive boundary admitted) and -infinity when one is violated.
C1_SupportIffAdmissible ==
    op = "evaluate" =>
        IF env.base # "0.0" THEN evalRet = env.base
        ELSE evalRet = (IF AllConstraintsHold(value, env) THEN "0.0" ELSE "-inf")

\* C2: for every point density returns a value >= 0, and exactly 0.0 whenever
\* the support test on that point is not finite.
C2_DensityNonNegative ==
    op = "density" =>
        /\ densRet.raised = "no"
        /\ densRet.value >= 0
        /\ (~IsFinite(evalRet) => densRet.value = 0)

\* C3: __call__ never raises: whatever epsilon, zeta and R_r_s the spacetime
\* supplies, every step (the computation of mu included) completes and the
\* outcome of a point that passes the base-class check is 0.0 or -infinity.
C3_EvaluateNeverRaises ==
    (op = "evaluate" /\ env.base = "0.0") => evalRet \in {"0.0", "-inf"}

\* C4: for each of the four presence combinations of XTI__alpha and PN__alpha,
\* density and inverse_sample return without a lookup error: an absent scale
\* factor is skipped.
C4_NoLookupError ==
    /\ op = "density" => densRet.raised # "KeyError"
    /\ op = "inverse_sample" => Len(sampleOut) = Len(Names(parameters))

\* what inverse_sample(u) returns on the container as built
ReferenceSample(u) ==
    InverseSample(InitialValue(parameters), InitialCached(parameters), u,
                  parameters, strict_lower).out

\* C5: inverse_sample is deterministic in its hypercube argument: whatever the
\* container held on entry and whatever calls came before, the vector returned
\* for u is the one returned for u on the container as built.
C5_Deterministic ==
    op = "inverse_sample" => sampleOut = ReferenceSample(hypercube)

\* an inverse_sample that started from values other than the as-built ones
\* (after the call the cached values are the values on entry)
C5_Witness ==
    /\ op = "inverse_sample"
    /\ cached # InitialValue(parameters)
    /\ Vector(cached, parameters) # sampleOut

\* C6: when inverse_sample returns, every parameter's cached value is the
\* snapshot taken for it on entry, and the vector returned holds the values
\* the writes of the call produced, not the values on entry.
C6_CacheRestoredSampleKept ==
    [][op' = "inverse_sample" =>
          /\ to_cache' = Vector(value, parameters)
          /\ \A n \in NameSet(parameters) :
                cached'[n] = to_cache'[Index(n, parameters)]
          /\ \E written \in {SampleWrites(value, hypercube', parameters,
                                           strict_lower)} :
                sampleOut' = Vector(written, parameters)]_vars

\* an inverse_sample whose returned vector differs from the snapshot
C6_Witness ==
    /\ op = "inverse_sample"
    /\ \A n \in NameSet(parameters) : cached[n] = to_cache[Index(n, parameters)]
    /\ sampleOut # to_cache

\* C7, as stated: after inverse_sample returns, each parameter's value and
\* cached value are what they were on entry.
C7_ContainerUnchanged ==
    [][op' = "inverse_sample" => (value' = value /\ cached' = cached)]_vars

\* C7, amended: after inverse_sample returns, each parameter's cached value is
\* the value it had on entry, and its value is the sampled one the call
\* returned, which stays in the container.
C7_OnlyCacheRestored ==
    [][op' = "inverse_sample" =>
          /\ \A n \in NameSet(parameters) : cached'[n] = value[n]
          /\ Vector(value', parameters) = sampleOut']_vars

\* a second inverse_sample: the cached values are neither the as-built cached
\* values nor the values the call left
C7_Witness ==
    /\ op = "inverse_sample"
    /\ cached # InitialCached(parameters)
    /\ cached # InitialValue(parameters)
    /\ cached # value

\* the three values transform appended
Appended == SubSeq(transOut, Len(transIn) + 1, Len(transOut))

\* the output of transform is its input followed by three values
C8_Shape ==
    /\ Len(transOut) = Len(transIn) + 3
    /\ SubSeq(transOut, 1, Len(transIn)) = transIn

\* C8, as stated: every phase shift in [0, 1) is appended folded into
\* [-0.5, 0.5), after the unmodified input and the compactness.
C8_FoldedIntoHalfOpenBelow ==
    op = "transform" =>
        /\ C8_Shape
        /\ \A i \in 2..3 : Appended[i] >= -500 /\ Appended[i] < 500

\* C8, amended: every phase shift x in [0, 1) is appended as x - 1.0 when x
\* exceeds 0.5 and as x otherwise, which lies in (-0.5, 0.5]: 0.5 itself is
\* kept, 0.7 gives -0.3 and 0.3 gives 0.3.
C8_FoldedIntoHalfOpenAbove ==
    op = "transform" =>
        /\ C8_Shape
        /\ \A i \in 2..3 :
             LET x == transIn[Index(IF i = 2 THEN "p__phase_shift"
                                    ELSE "s__phase_shift", parameters)]
             IN  /\ Appended[i] > -500 /\ Appended[i] <= 500
                 /\ Appended[i] = (IF x > 500 THEN x - 1000 ELSE x)
                 /\ (x = 700 => Appended[i] = -300)
                 /\ (x = 300 => Appended[i] = 300)

\* a transform of a primary phase shift above one half and a secondary of
\* exactly one half
C8_Witness ==
    /\ op = "transform"
    /\ transIn[Index("p__phase_shift", parameters)] = 700
    /\ transIn[Index("s__phase_shift", parameters)] = 500

\* the coordinate of the last hypercube that belongs to parameter n
Draw(n) == hypercube[Index(n, parameters)]

\* C9: inverse_sample writes in dependency order: cos_inclination is drawn
\* around the conditional location of the mass written in the same call, and
\* PN__alpha around 1.0 + 0.916 (XTI__alpha - 1.0) of the XTI__alpha written in
\* the same call, or around 1.0 with scale 0.104 when XTI__alpha is absent.
C9_DependencyOrder ==
    op = "inverse_sample" =>
        /\ value["mass"] =
              TruncNormPPF(Draw("mass"), -5 * _std_m, 5 * _std_m, _mu_m, _std_m)
        /\ value["cos_inclination"] =
              TruncNormPPF(Draw("cos_inclination"),
                           Min(-10 * _cond_std, strict_lower - _loc(value)),
                           10 * _cond_std, _loc(value), _cond_std)
        /\ HasParam(value, "XTI__alpha") =>
              value["XTI__alpha"] =
                 TruncNormPPF(Draw("XTI__alpha"), -5 * _std, 5 * _std, 1000000, _std)
        /\ (HasParam(value, "PN__alpha") /\ HasParam(value, "XTI__alpha")) =>
              value["PN__alpha"] =
                 TruncNormPPF(Draw("PN__alpha"), -5 * _cond_std_alpha,
                              5 * _cond_std_alpha,
                              1000000 + MulDiv(value["XTI__alpha"] - 1000000, _rho, 1000),
                              _cond_std_alpha)
        /\ (HasParam(value, "PN__alpha") /\ ~HasParam(value, "XTI__alpha")) =>
              value["PN__alpha"] =
                 TruncNormPPF(Draw("PN__alpha"), -5 * _std, 5 * _std, 1000000, _std)

\* an inverse_sample with both scale factors that drew a mass and an
\* XTI__alpha away from their means
C9_Witness ==
    /\ op = "inverse_sample"
    /\ HasParam(value, "PN__alpha") /\ HasParam(value, "XTI__alpha")
    /\ value["mass"] # _mu_m
    /\ value["XTI__alpha"] # 1000000

\* C10: the strict lower bound clips cos_inclination: inverse_sample never
\* writes a cos_inclination below it, and density gives no weight to one.
C10_StrictLowerClips ==
    /\ op = "inverse_sample" => value["cos_inclination"] >= strict_lower
    /\ (op = "density" /\ value["cos_inclination"] < strict_lower) =>
          densRet.value = 0

====
